---- MODULE Spec2Model ----
(***************************************************************************)
(* Model of generated/python/safe_list.py: length-checked list operations  *)
(* and the dimension-tracked Matrix, together with the Python objects      *)
(* (lists on a heap, Matrix instances) a caller hands to them.             *)
(***************************************************************************)
EXTENDS Integers, Sequences, FiniteSets, TLC

VARIABLES heap, mats, op, args, out, muts

vars == <<heap, mats, op, args, out, muts>>

(***************************************************************************)
(* Bounds of the model.                                                    *)
(***************************************************************************)
\* longest list literal a caller writes
MaxLen == 3
\* largest row count and largest row length of a nested list literal
MaxRows == 1
MaxCols == 2
\* number of in-place changes a caller makes to objects it holds
MaxMuts == 1

\* No library function takes more than two lists (zip_vect) or two matrices
\* (mat_add), and each is a function of its arguments alone: a caller that
\* holds two lists, or two matrices, can make every call there is.
Operands == 2

\* element values stored in lists and matrices
Elems == {0, 1}

(***************************************************************************)
(* Python numbers.  An int k is [t |-> "int", v |-> k]; a float is kept as *)
(* twice its value, [t |-> "float", v |-> 2*x], so that 0.5, 1.0, 1.5 are  *)
(* representable and int/float comparisons are numeric as in Python.       *)
(***************************************************************************)
PyInt(k) == [t |-> "int", v |-> k]

PyFloat(h) == [t |-> "float", v |-> h]

Twice(x) == IF x.t = "int" THEN 2 * x.v ELSE x.v

isinstance_int(x) == x.t = "int"

PyLe(a, b) == Twice(a) <= Twice(b)

PyLt(a, b) == Twice(a) < Twice(b)

PyEq(a, b) == Twice(a) = Twice(b)

(***************************************************************************)
(* Outcome of a call: a returned value or the exception that left it.      *)
(***************************************************************************)
Ok(v) == [exc |-> "none", val |-> v]

AssertionError(msg, info) == [exc |-> "AssertionError", msg |-> msg, info |-> info]

TypeError(msg) == [exc |-> "TypeError", msg |-> msg, info |-> <<>>]

IndexError(msg) == [exc |-> "IndexError", msg |-> msg, info |-> <<>>]

Returned(o) == o.exc = "none"

(***************************************************************************)
(* Python list primitives used by the library.                             *)
(***************************************************************************)
\* vec[i]: a negative int counts from the end, a float is a TypeError
PyGetItem(vec, i) ==
    IF ~isinstance_int(i) THEN TypeError("list indices must be integers")
    ELSE IF 0 <= i.v /\ i.v < Len(vec) THEN Ok(vec[i.v + 1])
    ELSE IF i.v < 0 /\ -Len(vec) <= i.v THEN Ok(vec[Len(vec) + i.v + 1])
    ELSE IndexError("list index out of range")

\* the position a slice bound k denotes in a list of length len
SliceBound(k, len) ==
    IF k < 0 THEN (IF len + k < 0 THEN 0 ELSE len + k)
    ELSE (IF k > len THEN len ELSE k)

\* vec[:n]
PySliceTo(vec, n) ==
    IF ~isinstance_int(n) THEN TypeError("slice indices must be integers")
    ELSE Ok(SubSeq(vec, 1, SliceBound(n.v, Len(vec))))

\* vec[n:]
PySliceFrom(vec, n) ==
    IF ~isinstance_int(n) THEN TypeError("slice indices must be integers")
    ELSE Ok(SubSeq(vec, SliceBound(n.v, Len(vec)) + 1, Len(vec)))

\* list(zip(vec1, vec2)): stops at the shorter argument
PyZip(vec1, vec2) ==
    LET len == IF Len(vec1) <= Len(vec2) THEN Len(vec1) ELSE Len(vec2)
    IN  [k \in 1..len |-> <<vec1[k], vec2[k]>>]

\* [value] * n
PyRepeat(value, n) ==
    IF ~isinstance_int(n) THEN TypeError("can't multiply sequence by non-int")
    ELSE Ok([k \in 1..n.v |-> value])

\* range(n) as the sequence 0 .. n-1
PyRange(n) ==
    IF ~isinstance_int(n) THEN TypeError("'float' object cannot be interpreted as an integer")
    ELSE Ok([k \in 1..n.v |-> k - 1])

(***************************************************************************)
(* Basic safe operations, on list contents.                                *)
(***************************************************************************)
safe_head(vec) ==
    IF ~(Len(vec) >= 1)
    THEN AssertionError("safe_head requires non-empty vector (len >= 1)", <<>>)
    ELSE PyGetItem(vec, PyInt(0))

safe_tail(vec) ==
    IF ~(Len(vec) >= 1)
    THEN AssertionError("safe_tail requires non-empty vector", <<>>)
    ELSE PySliceFrom(vec, PyInt(1))

\* safe_index with the lower bound of the range check left out
safe_index_no_lower_bound(index, vec) ==
    IF ~isinstance_int(index)
    THEN AssertionError("Index must be int, got {}", <<index.t>>)
    ELSE IF ~PyLt(index, PyInt(Len(vec)))
    THEN AssertionError("Index out of bounds: {} not in range [0, {})", <<index, Len(vec)>>)
    ELSE PyGetItem(vec, index)

safe_index(index, vec) ==
    IF ~isinstance_int(index)
    THEN AssertionError("Index must be int, got {}", <<index.t>>)
    ELSE IF ~(PyLe(PyInt(0), index) /\ PyLt(index, PyInt(Len(vec))))
    THEN AssertionError("Index out of bounds: {} not in range [0, {})", <<index, Len(vec)>>)
    ELSE PyGetItem(vec, index)

\* safe_take slicing the last n elements instead of the first n
safe_take_from_end(n, vec) ==
    IF ~(isinstance_int(n) /\ PyLe(PyInt(0), n))
    THEN AssertionError("n must be non-negative int, got {}", <<n>>)
    ELSE IF ~PyLe(n, PyInt(Len(vec)))
    THEN AssertionError("Vector too short: len={}, need at least {}", <<Len(vec), n>>)
    ELSE LET result == PySliceFrom(vec, PyInt(Len(vec) - n.v))
         IN  IF ~Returned(result) THEN result
             ELSE IF ~PyEq(PyInt(Len(result.val)), n)
             THEN AssertionError("Postcondition: result length must equal n", <<>>)
             ELSE result

safe_take(n, vec) ==
    IF ~(isinstance_int(n) /\ PyLe(PyInt(0), n))
    THEN AssertionError("n must be non-negative int, got {}", <<n>>)
    ELSE IF ~PyLe(n, PyInt(Len(vec)))
    THEN AssertionError("Vector too short: len={}, need at least {}", <<Len(vec), n>>)
    ELSE LET result == PySliceTo(vec, n)
         IN  IF ~Returned(result) THEN result
             ELSE IF ~PyEq(PyInt(Len(result.val)), n)
             THEN AssertionError("Postcondition: result length must equal n", <<>>)
             ELSE result

\* safe_drop requiring len(vec) > n instead of len(vec) >= n
safe_drop_strict(n, vec) ==
    IF ~(isinstance_int(n) /\ PyLe(PyInt(0), n))
    THEN AssertionError("n must be non-negative int, got {}", <<n>>)
    ELSE IF ~PyLt(n, PyInt(Len(vec)))
    THEN AssertionError("Cannot drop {} elements from vector of length {}", <<n, Len(vec)>>)
    ELSE LET result == PySliceFrom(vec, n)
         IN  IF ~Returned(result) THEN result
             ELSE IF 2 * Len(result.val) # 2 * Len(vec) - Twice(n)
             THEN AssertionError("Postcondition: length arithmetic", <<>>)
             ELSE result

safe_drop(n, vec) ==
    IF ~(isinstance_int(n) /\ PyLe(PyInt(0), n))
    THEN AssertionError("n must be non-negative int, got {}", <<n>>)
    ELSE IF ~PyLe(n, PyInt(Len(vec)))
    THEN AssertionError("Cannot drop {} elements from vector of length {}", <<n, Len(vec)>>)
    ELSE LET result == PySliceFrom(vec, n)
         IN  IF ~Returned(result) THEN result
             ELSE IF 2 * Len(result.val) # 2 * Len(vec) - Twice(n)
             THEN AssertionError("Postcondition: length arithmetic", <<>>)
             ELSE result

\* zip_vect without its precondition on the two lengths
zip_vect_no_precondition(vec1, vec2) ==
    LET result == PyZip(vec1, vec2)
    IN  IF Len(result) # Len(vec1)
        THEN AssertionError("Postcondition: preserve length", <<>>)
        ELSE Ok(result)

zip_vect(vec1, vec2) ==
    IF Len(vec1) # Len(vec2)
    THEN AssertionError("Vectors must have same length: {} != {}", <<Len(vec1), Len(vec2)>>)
    ELSE LET result == PyZip(vec1, vec2)
         IN  IF Len(result) # Len(vec1)
             THEN AssertionError("Postcondition: preserve length", <<>>)
             ELSE Ok(result)

safe_replicate(n, value) ==
    IF ~(isinstance_int(n) /\ PyLe(PyInt(0), n))
    THEN AssertionError("n must be non-negative int, got {}", <<n>>)
    ELSE LET result == PyRepeat(value, n)
         IN  IF ~Returned(result) THEN result
             ELSE IF ~PyEq(PyInt(Len(result.val)), n)
             THEN AssertionError("Postcondition: result has exactly n elements", <<>>)
             ELSE result

(***************************************************************************)
(* The heap of list objects.  heap[a] is the list at address a: its kind   *)
(* is the static element type (vect: List[int], data: List[List[int]],     *)
(* pairs: List[Tuple]) and items its current contents; the items of a data *)
(* list are the addresses of its rows.  NonEmpty instances live on the     *)
(* same heap (see the section on the non-empty wrapper).                   *)
(***************************************************************************)
Addrs == 1..Len(heap)

VectAddrs == {a \in Addrs : heap[a].kind # "data"}

DataAddrs == {a \in Addrs : heap[a].kind = "data"}

NewList(h, kind, items) == Append(h, [kind |-> kind, items |-> items])

\* all sequences over S of length at most n
SeqUpTo(S, n) == UNION {[1..k -> S] : k \in 0..n}

\* integer and fractional actual parameters a caller passes
IntArgs(hi) == {PyInt(k) : k \in -1..hi}

FloatArgs == {PyFloat(1)}

NumArgs(hi) == IntArgs(hi) \cup FloatArgs

Init ==
    /\ heap = <<>>
    /\ mats = <<>>
    /\ op = "idle"
    /\ args = <<>>
    /\ out = Ok("None")
    /\ muts = 0

(***************************************************************************)
(* Calls of the list operations.  A returned list is a new list object.    *)
(***************************************************************************)
\* what the caller sees of a returned list: the object (0 once dropped) and
\* its items at return
ListResult(id, items) == Ok([id |-> id, items |-> items])

\* a call that returns a list: the result is a new list object, which the
\* caller keeps while it holds fewer than Operands lists and otherwise reads
\* and drops
ReturnList(kind, r) ==
    IF Returned(r) /\ Len(heap) < Operands
    THEN /\ heap' = NewList(heap, kind, r.val)
         /\ out' = ListResult(Len(heap) + 1, r.val)
    ELSE /\ heap' = heap
         /\ out' = IF Returned(r) THEN ListResult(0, r.val) ELSE r

\* the caller writes a list literal
NewVect(items) ==
    /\ op = "idle"
    /\ Len(heap) < Operands
    /\ heap' = NewList(heap, "vect", items)
    /\ op' = "list"
    /\ args' = [items |-> items]
    /\ out' = ListResult(Len(heap) + 1, items)
    /\ UNCHANGED <<mats, muts>>

SafeIndex(index, vec) ==
    /\ op = "idle"
    /\ op' = "safe_index"
    /\ args' = [index |-> index, vec |-> vec, vec_val |-> heap[vec].items]
    /\ out' = safe_index(index, heap[vec].items)
    /\ UNCHANGED <<heap, mats, muts>>

SafeTake(n, vec) ==
    /\ op = "idle"
    /\ op' = "safe_take"
    /\ args' = [n |-> n, vec |-> vec, vec_val |-> heap[vec].items]
    /\ ReturnList(heap[vec].kind, safe_take(n, heap[vec].items))
    /\ UNCHANGED <<mats, muts>>

SafeDrop(n, vec) ==
    /\ op = "idle"
    /\ op' = "safe_drop"
    /\ args' = [n |-> n, vec |-> vec, vec_val |-> heap[vec].items]
    /\ ReturnList(heap[vec].kind, safe_drop(n, heap[vec].items))
    /\ UNCHANGED <<mats, muts>>

ZipVect(vec1, vec2) ==
    /\ op = "idle"
    /\ op' = "zip_vect"
    /\ args' = [vec1 |-> vec1, vec2 |-> vec2,
                vec1_val |-> heap[vec1].items, vec2_val |-> heap[vec2].items]
    /\ ReturnList("pairs", zip_vect(heap[vec1].items, heap[vec2].items))
    /\ UNCHANGED <<mats, muts>>

SafeReplicate(n, value) ==
    /\ op = "idle"
    /\ op' = "safe_replicate"
    /\ args' = [n |-> n, value |-> value]
    /\ ReturnList("vect", safe_replicate(n, value))
    /\ UNCHANGED <<mats, muts>>

\* the caller has looked at the outcome of its call and goes on
Return ==
    /\ op # "idle"
    /\ op' = "idle"
    /\ args' = <<>>
    /\ out' = Ok("None")
    /\ UNCHANGED <<heap, mats, muts>>

NextVect ==
    \/ Return
    \/ \E items \in SeqUpTo(Elems, MaxLen) : NewVect(items)
    \/ \E index \in NumArgs(MaxLen), vec \in VectAddrs : SafeIndex(index, vec)
    \/ \E n \in NumArgs(MaxLen), vec \in VectAddrs : SafeTake(n, vec)
    \/ \E n \in NumArgs(MaxLen), vec \in VectAddrs : SafeDrop(n, vec)
    \/ \E vec1 \in VectAddrs, vec2 \in VectAddrs : ZipVect(vec1, vec2)
    \/ \E n \in NumArgs(MaxLen), value \in Elems : SafeReplicate(n, value)

SpecVect == Init /\ [][NextVect]_vars

(***************************************************************************)
(* Matrix: a dataclass instance [rows, cols, data], data the address of    *)
(* the list object it was given (the constructor stores the reference).    *)
(***************************************************************************)
Min(S) == CHOOSE x \in S : \A y \in S : x <= y

\* the contents of the data list at address d, row by row
RowsOf(h, d) == [i \in 1..Len(h[d].items) |-> h[h[d].items[i]].items]

\* the value of a Matrix object as the caller reads it
MatVal(h, mat) == [rows |-> mat.rows, cols |-> mat.cols, data |-> RowsOf(h, mat.data)]

\* __post_init__ without the loop over the rows
Matrix_post_init_no_row_loop(rows, cols, data) ==
    IF ~PyLe(PyInt(0), rows)
    THEN AssertionError("rows must be non-negative, got {}", <<rows>>)
    ELSE IF ~PyLe(PyInt(0), cols)
    THEN AssertionError("cols must be non-negative, got {}", <<cols>>)
    ELSE IF ~PyEq(PyInt(Len(data)), rows)
    THEN AssertionError("Data has {} rows, expected {}", <<Len(data), rows>>)
    ELSE Ok("None")

\* Matrix.__post_init__ on fields rows, cols and the contents of data
Matrix_post_init(rows, cols, data) ==
    IF ~PyLe(PyInt(0), rows)
    THEN AssertionError("rows must be non-negative, got {}", <<rows>>)
    ELSE IF ~PyLe(PyInt(0), cols)
    THEN AssertionError("cols must be non-negative, got {}", <<cols>>)
    ELSE IF ~PyEq(PyInt(Len(data)), rows)
    THEN AssertionError("Data has {} rows, expected {}", <<Len(data), rows>>)
    ELSE LET bad == {i \in 1..Len(data) : ~PyEq(PyInt(Len(data[i])), cols)}
         IN  IF bad # {}
             THEN AssertionError("Row {} has {} cols, expected {}",
                                 <<Min(bad) - 1, Len(data[Min(bad)]), cols>>)
             ELSE Ok("None")

\* Matrix(rows, cols, data) on the contents of data: the checked fields
Matrix(rows, cols, data) ==
    LET checked == Matrix_post_init(rows, cols, data)
    IN  IF ~Returned(checked) THEN checked
        ELSE Ok([rows |-> rows, cols |-> cols, data |-> data])

\* zero_matrix that takes only positive dimensions
zero_matrix_strict(rows, cols) ==
    IF ~(PyLt(PyInt(0), rows) /\ PyLt(PyInt(0), cols))
    THEN AssertionError("Dimensions must be non-negative", <<>>)
    ELSE LET range == PyRange(rows)
             row == PyRepeat(0, cols)
         IN  IF ~Returned(range) THEN range
             ELSE IF Len(range.val) > 0 /\ ~Returned(row) THEN row
             ELSE Matrix(rows, cols, [i \in 1..Len(range.val) |-> row.val])

zero_matrix(rows, cols) ==
    IF ~(PyLe(PyInt(0), rows) /\ PyLe(PyInt(0), cols))
    THEN AssertionError("Dimensions must be non-negative", <<>>)
    ELSE LET range == PyRange(rows)
             row == PyRepeat(0, cols)
         IN  IF ~Returned(range) THEN range
             ELSE IF Len(range.val) > 0 /\ ~Returned(row) THEN row
             ELSE Matrix(rows, cols, [i \in 1..Len(range.val) |-> row.val])

\* mat.data[i][j]
MatGet(h, mat, i, j) ==
    LET row == PyGetItem(h[mat.data].items, i)
    IN  IF ~Returned(row) THEN row ELSE PyGetItem(h[row.val].items, j)

\* the entry sum reading mat1 twice
mat_add_entry_same_operand(h, mat1, mat2, i, j) ==
    LET a == MatGet(h, mat1, PyInt(i), PyInt(j))
    IN  IF ~Returned(a) THEN a ELSE Ok(a.val + a.val)

\* mat1.data[i][j] + mat2.data[i][j]
mat_add_entry(h, mat1, mat2, i, j) ==
    LET a == MatGet(h, mat1, PyInt(i), PyInt(j))
        b == MatGet(h, mat2, PyInt(i), PyInt(j))
    IN  IF ~Returned(a) THEN a
        ELSE IF ~Returned(b) THEN b
        ELSE Ok(a.val + b.val)

\* the list comprehension of mat_add and the Matrix built from it
mat_add_result(h, mat1, mat2) ==
    LET ri == PyRange(mat1.rows)
        rj == PyRange(mat1.cols)
    IN  IF ~Returned(ri) THEN ri
        ELSE IF Len(ri.val) > 0 /\ ~Returned(rj) THEN rj
        ELSE LET nr == Len(ri.val)
                 nc == IF nr > 0 THEN Len(rj.val) ELSE 0
                 \* row-major position of the first entry that raises
                 bad == {k \in 0..(nr * nc - 1) :
                           ~Returned(mat_add_entry(h, mat1, mat2, k \div nc, k % nc))}
             IN  IF bad # {}
                 THEN mat_add_entry(h, mat1, mat2, Min(bad) \div nc, Min(bad) % nc)
                 ELSE Matrix(mat1.rows, mat1.cols,
                             [i \in 1..nr |-> [j \in 1..nc |->
                                 mat_add_entry(h, mat1, mat2, i - 1, j - 1).val]])

\* mat_add with the assert on the column counts before the one on the rows
mat_add_columns_first(h, mat1, mat2) ==
    IF ~PyEq(mat1.cols, mat2.cols)
    THEN AssertionError("Column mismatch: {} != {}", <<mat1.cols, mat2.cols>>)
    ELSE IF ~PyEq(mat1.rows, mat2.rows)
    THEN AssertionError("Row mismatch: {} != {}", <<mat1.rows, mat2.rows>>)
    ELSE mat_add_result(h, mat1, mat2)

\* mat_add without the assert on the column counts
mat_add_no_column_check(h, mat1, mat2) ==
    IF ~PyEq(mat1.rows, mat2.rows)
    THEN AssertionError("Row mismatch: {} != {}", <<mat1.rows, mat2.rows>>)
    ELSE mat_add_result(h, mat1, mat2)

mat_add(h, mat1, mat2) ==
    IF ~PyEq(mat1.rows, mat2.rows)
    THEN AssertionError("Row mismatch: {} != {}", <<mat1.rows, mat2.rows>>)
    ELSE IF ~PyEq(mat1.cols, mat2.cols)
    THEN AssertionError("Column mismatch: {} != {}", <<mat1.cols, mat2.cols>>)
    ELSE mat_add_result(h, mat1, mat2)

\* mat_index without the lower bound of the row check
mat_index_no_lower_bound(h, i, j, mat) ==
    IF ~PyLt(i, mat.rows)
    THEN AssertionError("Row index {} out of bounds [0, {})", <<i, mat.rows>>)
    ELSE IF ~(PyLe(PyInt(0), j) /\ PyLt(j, mat.cols))
    THEN AssertionError("Column index {} out of bounds [0, {})", <<j, mat.cols>>)
    ELSE MatGet(h, mat, i, j)

mat_index(h, i, j, mat) ==
    IF ~(PyLe(PyInt(0), i) /\ PyLt(i, mat.rows))
    THEN AssertionError("Row index {} out of bounds [0, {})", <<i, mat.rows>>)
    ELSE IF ~(PyLe(PyInt(0), j) /\ PyLt(j, mat.cols))
    THEN AssertionError("Column index {} out of bounds [0, {})", <<j, mat.cols>>)
    ELSE MatGet(h, mat, i, j)

(***************************************************************************)
(* Calls of the matrix operations.                                         *)
(***************************************************************************)
MatIds == 1..Len(mats)

\* a nested list with the given rows: each row a new list, then the outer list
NewData(h, rows) ==
    Append(h \o [i \in 1..Len(rows) |-> [kind |-> "vect", items |-> rows[i]]],
           [kind |-> "data", items |-> [i \in 1..Len(rows) |-> Len(h) + i]])

\* the nested literal whose i-th row has shape[i] entries, all entries distinct
Literal(shape) == [i \in 1..Len(shape) |-> [j \in 1..shape[i] |-> 10 * i + j]]

\* the caller keeps a returned Matrix while it holds fewer than Operands of
\* them; otherwise it reads and drops it
Keeps == Len(mats) < Operands

\* what the caller sees of a returned Matrix: the object (0 once dropped) and
\* its value at return
MatrixResult(id, rows, cols, data) ==
    Ok([id |-> id, rows |-> rows, cols |-> cols, data |-> data])

\* a call that returns a Matrix built from new lists: r.val holds its contents
ReturnMatrix(r) ==
    IF Returned(r) /\ Keeps
    THEN /\ heap' = NewData(heap, r.val.data)
         /\ mats' = Append(mats, [rows |-> r.val.rows, cols |-> r.val.cols,
                                  data |-> Len(heap) + Len(r.val.data) + 1])
         /\ out' = MatrixResult(Len(mats) + 1, r.val.rows, r.val.cols, r.val.data)
    ELSE /\ UNCHANGED <<heap, mats>>
         /\ out' = IF Returned(r)
                   THEN MatrixResult(0, r.val.rows, r.val.cols, r.val.data)
                   ELSE r

\* Matrix(rows, cols, <nested list literal>): the object stores the new
\* list, which stays reachable through the object alone
Construct(rows, cols, shape) ==
    /\ op = "idle"
    /\ op' = "Matrix"
    /\ LET r == Matrix(rows, cols, Literal(shape))
           data == Len(heap) + Len(shape) + 1
       IN  IF Returned(r) /\ Keeps
           THEN /\ heap' = NewData(heap, Literal(shape))
                /\ mats' = Append(mats, [rows |-> rows, cols |-> cols, data |-> data])
                /\ args' = [rows |-> rows, cols |-> cols, data |-> data,
                            data_val |-> Literal(shape)]
                /\ out' = MatrixResult(Len(mats) + 1, rows, cols, r.val.data)
           ELSE /\ UNCHANGED <<heap, mats>>
                /\ args' = [rows |-> rows, cols |-> cols, data |-> 0,
                            data_val |-> Literal(shape)]
                /\ out' = IF Returned(r)
                          THEN MatrixResult(0, rows, cols, r.val.data)
                          ELSE r
    /\ UNCHANGED muts

\* Matrix(rows, cols, data) with data a nested list some Matrix already
\* holds: the new object stores the same reference
ConstructFrom(rows, cols, data) ==
    /\ op = "idle"
    /\ op' = "Matrix"
    /\ args' = [rows |-> rows, cols |-> cols, data |-> data,
                data_val |-> RowsOf(heap, data)]
    /\ LET r == Matrix(rows, cols, RowsOf(heap, data))
       IN  IF Returned(r) /\ Keeps
           THEN /\ mats' = Append(mats, [rows |-> rows, cols |-> cols, data |-> data])
                /\ out' = MatrixResult(Len(mats) + 1, rows, cols, r.val.data)
           ELSE /\ mats' = mats
                /\ out' = IF Returned(r)
                          THEN MatrixResult(0, rows, cols, r.val.data)
                          ELSE r
    /\ UNCHANGED <<heap, muts>>

ZeroMatrix(rows, cols) ==
    /\ op = "idle"
    /\ op' = "zero_matrix"
    /\ args' = [rows |-> rows, cols |-> cols]
    /\ ReturnMatrix(zero_matrix(rows, cols))
    /\ UNCHANGED muts

MatAdd(mat1, mat2) ==
    /\ op = "idle"
    /\ op' = "mat_add"
    /\ args' = [mat1 |-> mat1, mat2 |-> mat2,
                mat1_val |-> MatVal(heap, mats[mat1]),
                mat2_val |-> MatVal(heap, mats[mat2])]
    /\ ReturnMatrix(mat_add(heap, mats[mat1], mats[mat2]))
    /\ UNCHANGED muts

MatIndex(i, j, mat) ==
    /\ op = "idle"
    /\ op' = "mat_index"
    /\ args' = [i |-> i, j |-> j, mat |-> mat, mat_val |-> MatVal(heap, mats[mat])]
    /\ out' = mat_index(heap, i, j, mats[mat])
    /\ UNCHANGED <<heap, mats, muts>>

Next ==
    \/ Return
    \/ \E rows \in NumArgs(MaxRows), cols \in NumArgs(MaxCols),
          shape \in SeqUpTo(0..MaxCols, MaxRows) : Construct(rows, cols, shape)
    \/ \E rows \in NumArgs(MaxRows), cols \in NumArgs(MaxCols), data \in DataAddrs :
          ConstructFrom(rows, cols, data)
    \/ \E rows \in NumArgs(MaxRows), cols \in NumArgs(MaxCols) : ZeroMatrix(rows, cols)
    \/ \E mat1 \in MatIds, mat2 \in MatIds : MatAdd(mat1, mat2)
    \/ \E i \in NumArgs(MaxRows), j \in NumArgs(MaxCols), mat \in MatIds :
          MatIndex(i, j, mat)

Spec == Init /\ [][Next]_vars

(***************************************************************************)
(* What a caller can do to the objects it holds.  Matrix is a dataclass    *)
(* that is not frozen and keeps the list it was given, so its fields can   *)
(* be assigned and its lists changed in place.                             *)
(***************************************************************************)
\* mat.rows = value
AssignRows(mat, value) ==
    /\ op = "idle" /\ muts < MaxMuts
    /\ mats' = [mats EXCEPT ![mat].rows = value]
    /\ muts' = muts + 1
    /\ UNCHANGED <<heap, op, args, out>>

\* mat.cols = value
AssignCols(mat, value) ==
    /\ op = "idle" /\ muts < MaxMuts
    /\ mats' = [mats EXCEPT ![mat].cols = value]
    /\ muts' = muts + 1
    /\ UNCHANGED <<heap, op, args, out>>

\* mat.data = data
AssignData(mat, data) ==
    /\ op = "idle" /\ muts < MaxMuts
    /\ mats' = [mats EXCEPT ![mat].data = data]
    /\ muts' = muts + 1
    /\ UNCHANGED <<heap, op, args, out>>

\* lst.append(item) on a list the caller holds: a row gets an element, a
\* nested list gets a row
ListAppend(lst, item) ==
    /\ op = "idle" /\ muts < MaxMuts
    /\ heap' = [heap EXCEPT ![lst].items = Append(@, item)]
    /\ muts' = muts + 1
    /\ UNCHANGED <<mats, op, args, out>>

\* lst.pop() on a non-empty list the caller holds
ListPop(lst) ==
    /\ op = "idle" /\ muts < MaxMuts
    /\ Len(heap[lst].items) >= 1
    /\ heap' = [heap EXCEPT ![lst].items = SubSeq(@, 1, Len(@) - 1)]
    /\ muts' = muts + 1
    /\ UNCHANGED <<mats, op, args, out>>

\* row[k] = item on a row the caller holds
ListSetItem(lst, k, item) ==
    /\ op = "idle" /\ muts < MaxMuts
    /\ k \in 1..Len(heap[lst].items)
    /\ heap' = [heap EXCEPT ![lst].items[k] = item]
    /\ muts' = muts + 1
    /\ UNCHANGED <<mats, op, args, out>>

RowAddrs == {a \in Addrs : heap[a].kind = "vect"}

NextCaller ==
    \/ \E mat \in MatIds, value \in IntArgs(MaxRows) : AssignRows(mat, value)
    \/ \E mat \in MatIds, value \in IntArgs(MaxCols) : AssignCols(mat, value)
    \/ \E mat \in MatIds, data \in DataAddrs : AssignData(mat, data)
    \/ \E lst \in RowAddrs, item \in Elems : ListAppend(lst, item)
    \/ \E lst \in DataAddrs, item \in RowAddrs : ListAppend(lst, item)
    \/ \E lst \in Addrs : ListPop(lst)
    \/ \E lst \in RowAddrs, k \in 1..MaxCols, item \in Elems : ListSetItem(lst, k, item)

\* a run of library calls followed by the caller's changes to what it holds
NextMutable ==
    \/ muts = 0 /\ Next
    \/ NextCaller

SpecMutable == Init /\ [][NextMutable]_vars

(***************************************************************************)
(* The non-empty wrapper and the operations on non-empty lists.  A         *)
(* NonEmpty instance is an object on the heap, kind "NonEmpty", with       *)
(* items <<head, address of the tail list>>.                               *)
(***************************************************************************)
ValueError(msg) == [exc |-> "ValueError", msg |-> msg, info |-> <<>>]

\* the dataclass instance NonEmpty(head=head, tail=tail), by value
NonEmpty(head, tail) == [head |-> head, tail |-> tail]

\* [self.head] + self.tail
NonEmpty_to_list(self) == Ok(<<self.head>> \o self.tail)

\* 1 + len(self.tail)
NonEmpty_len(self) == Ok(1 + Len(self.tail))

\* vect_to_non_empty with the slice taken from the start of the list
vect_to_non_empty_whole_tail(vec) ==
    IF ~(Len(vec) >= 1)
    THEN AssertionError("vect_to_non_empty requires non-empty vector", <<>>)
    ELSE Ok(NonEmpty(vec[1], PySliceFrom(vec, PyInt(0)).val))

vect_to_non_empty(vec) ==
    IF ~(Len(vec) >= 1)
    THEN AssertionError("vect_to_non_empty requires non-empty vector", <<>>)
    ELSE Ok(NonEmpty(PyGetItem(vec, PyInt(0)).val, PySliceFrom(vec, PyInt(1)).val))

\* min(vec) and max(vec): the first element no later element is strictly
\* below (above); on an empty list a ValueError
RECURSIVE PyMinFrom(_, _, _)
PyMinFrom(vec, k, m) ==
    IF k > Len(vec) THEN m
    ELSE PyMinFrom(vec, k + 1, IF vec[k] < m THEN vec[k] ELSE m)

PyMin(vec) ==
    IF Len(vec) = 0 THEN ValueError("min() arg is an empty sequence")
    ELSE Ok(PyMinFrom(vec, 2, vec[1]))

RECURSIVE PyMaxFrom(_, _, _)
PyMaxFrom(vec, k, m) ==
    IF k > Len(vec) THEN m
    ELSE PyMaxFrom(vec, k + 1, IF vec[k] > m THEN vec[k] ELSE m)

PyMax(vec) ==
    IF Len(vec) = 0 THEN ValueError("max() arg is an empty sequence")
    ELSE Ok(PyMaxFrom(vec, 2, vec[1]))

\* safe_minimum returning the first element instead of the least
safe_minimum_returns_first(vec) ==
    IF ~(Len(vec) >= 1)
    THEN AssertionError("safe_minimum requires non-empty vector", <<>>)
    ELSE PyGetItem(vec, PyInt(0))

safe_minimum(vec) ==
    IF ~(Len(vec) >= 1)
    THEN AssertionError("safe_minimum requires non-empty vector", <<>>)
    ELSE PyMin(vec)

safe_maximum(vec) ==
    IF ~(Len(vec) >= 1)
    THEN AssertionError("safe_maximum requires non-empty vector", <<>>)
    ELSE PyMax(vec)

\* the list objects and the NonEmpty objects on the heap
ListAddrs == {a \in Addrs : heap[a].kind # "NonEmpty"}

NonEmptyAddrs == {a \in Addrs : heap[a].kind = "NonEmpty"}

\* the value of the NonEmpty object at address w
NonEmptyVal(h, w) == NonEmpty(h[w].items[1], h[h[w].items[2]].items)

\* what the caller sees of a returned NonEmpty: the object (0 once dropped)
\* and its fields at return
NonEmptyResult(id, w) == Ok([id |-> id, head |-> w.head, tail |-> w.tail])

\* a NonEmpty is a new object holding a new tail list; the caller keeps it
\* while it holds no other NonEmpty (no operation takes more than one)
VectToNonEmpty(vec) ==
    /\ op = "idle"
    /\ op' = "vect_to_non_empty"
    /\ args' = [vec |-> vec, vec_val |-> heap[vec].items]
    /\ LET r == vect_to_non_empty(heap[vec].items)
       IN  IF Returned(r) /\ NonEmptyAddrs = {}
           THEN /\ heap' = Append(NewList(heap, heap[vec].kind, r.val.tail),
                                  [kind |-> "NonEmpty",
                                   items |-> <<r.val.head, Len(heap) + 1>>])
                /\ out' = NonEmptyResult(Len(heap) + 2, r.val)
           ELSE /\ heap' = heap
                /\ out' = IF Returned(r) THEN NonEmptyResult(0, r.val) ELSE r
    /\ UNCHANGED <<mats, muts>>

\* w.to_list()
ToList(w) ==
    /\ op = "idle"
    /\ op' = "to_list"
    /\ args' = [w |-> w, w_val |-> NonEmptyVal(heap, w)]
    /\ ReturnList(heap[heap[w].items[2]].kind, NonEmpty_to_list(NonEmptyVal(heap, w)))
    /\ UNCHANGED <<mats, muts>>

\* len(w)
NonEmptyLen(w) ==
    /\ op = "idle"
    /\ op' = "len"
    /\ args' = [w |-> w, w_val |-> NonEmptyVal(heap, w)]
    /\ out' = NonEmpty_len(NonEmptyVal(heap, w))
    /\ UNCHANGED <<heap, mats, muts>>

SafeMinimum(vec) ==
    /\ op = "idle"
    /\ op' = "safe_minimum"
    /\ args' = [vec |-> vec, vec_val |-> heap[vec].items]
    /\ out' = safe_minimum(heap[vec].items)
    /\ UNCHANGED <<heap, mats, muts>>

SafeMaximum(vec) ==
    /\ op = "idle"
    /\ op' = "safe_maximum"
    /\ args' = [vec |-> vec, vec_val |-> heap[vec].items]
    /\ out' = safe_maximum(heap[vec].items)
    /\ UNCHANGED <<heap, mats, muts>>

NextNonEmpty ==
    \/ Return
    \/ \E items \in SeqUpTo(Elems, MaxLen) : NewVect(items)
    \/ \E vec \in ListAddrs : VectToNonEmpty(vec)
    \/ \E w \in NonEmptyAddrs : ToList(w)
    \/ \E w \in NonEmptyAddrs : NonEmptyLen(w)
    \/ \E vec \in ListAddrs : SafeMinimum(vec)
    \/ \E vec \in ListAddrs : SafeMaximum(vec)

SpecNonEmpty == Init /\ [][NextNonEmpty]_vars

(***************************************************************************)
(* The list operations applied to the lists a caller of the matrix         *)
(* operations holds: the rows of its matrices (List[int]) and their data   *)
(* (List[List[int]], whose elements are list objects themselves).          *)
(***************************************************************************)
\* the callables a caller passes to map_vect: lambda x: x and lambda x: x + 1
Fns == {"identity", "successor"}

\* f(x)
PyCall(f, x) == IF f = "successor" THEN x + 1 ELSE x

map_vect(f, vec) ==
    LET result == [k \in 1..Len(vec) |-> PyCall(f, vec[k])]
    IN  IF ~(Len(result) = Len(vec))
        THEN AssertionError("Postcondition: preserve length", <<>>)
        ELSE Ok(result)

SafeTail(vec) ==
    /\ op = "idle"
    /\ op' = "safe_tail"
    /\ args' = [vec |-> vec, vec_val |-> heap[vec].items]
    /\ ReturnList(heap[vec].kind, safe_tail(heap[vec].items))
    /\ UNCHANGED <<mats, muts>>

MapVect(f, vec) ==
    /\ op = "idle"
    /\ op' = "map_vect"
    /\ args' = [f |-> f, vec |-> vec, vec_val |-> heap[vec].items]
    /\ ReturnList(heap[vec].kind, map_vect(f, heap[vec].items))
    /\ UNCHANGED <<mats, muts>>

\* the operations that take lists or matrices and return new ones; zip_vect
\* and map_vect are called on lists of numbers
NextFrame ==
    \/ Return
    \/ \E rows \in IntArgs(MaxRows), cols \in IntArgs(MaxCols),
          shape \in SeqUpTo(0..MaxCols, MaxRows) : Construct(rows, cols, shape)
    \/ \E mat1 \in MatIds, mat2 \in MatIds : MatAdd(mat1, mat2)
    \/ \E vec \in ListAddrs : SafeTail(vec)
    \/ \E n \in IntArgs(MaxCols), vec \in ListAddrs : SafeTake(n, vec)
    \/ \E n \in IntArgs(MaxCols), vec \in ListAddrs : SafeDrop(n, vec)
    \/ \E vec1 \in RowAddrs, vec2 \in RowAddrs : ZipVect(vec1, vec2)
    \/ \E f \in Fns, vec \in RowAddrs : MapVect(f, vec)
    \/ \E vec \in ListAddrs : VectToNonEmpty(vec)
    \/ \E w \in NonEmptyAddrs : ToList(w)

SpecFrame == Init /\ [][NextFrame]_vars

(***************************************************************************)
(* The violation kinds of the error taxonomy.  The library raises every    *)
(* violation as an AssertionError; the kind is what its message reports.   *)
(***************************************************************************)
ContractViolation(o) == o.exc = "AssertionError"

BoundsViolation(o) ==
    /\ o.exc = "AssertionError"
    /\ o.msg \in {"Index out of bounds: {} not in range [0, {})",
                  "Row index {} out of bounds [0, {})",
                  "Column index {} out of bounds [0, {})"}

ShapeViolation(o) ==
    /\ o.exc = "AssertionError"
    /\ o.msg \in {"rows must be non-negative, got {}",
                  "cols must be non-negative, got {}",
                  "Data has {} rows, expected {}",
                  "Row {} has {} cols, expected {}",
                  "Row mismatch: {} != {}",
                  "Column mismatch: {} != {}"}

\* the list a call returned
ResultList == out.val.items

(***************************************************************************)
(* Properties of the list operations (checked under SpecVect).             *)
(***************************************************************************)
\* C3: for n, m >= 0 and len(v) = n + m, safe_take(n, v) has length n,
\* safe_drop(n, v) has length m, and the first followed by the second is v.
C3_TakeDropSplit ==
    /\ (op = "safe_take" /\ isinstance_int(args.n)
          /\ 0 <= args.n.v /\ args.n.v <= Len(args.vec_val))
       => /\ Returned(out)
          /\ Len(ResultList) = args.n.v
          /\ LET rest == safe_drop(args.n, args.vec_val)
             IN  /\ Returned(rest)
                 /\ Len(rest.val) = Len(args.vec_val) - args.n.v
                 /\ ResultList \o rest.val = args.vec_val
    /\ (op = "safe_drop" /\ isinstance_int(args.n)
          /\ 0 <= args.n.v /\ args.n.v <= Len(args.vec_val))
       => /\ Returned(out)
          /\ Len(ResultList) = Len(args.vec_val) - args.n.v
          /\ LET front == safe_take(args.n, args.vec_val)
             IN  /\ Returned(front)
                 /\ Len(front.val) = args.n.v
                 /\ front.val \o ResultList = args.vec_val

\* a proper split of a list with two different elements was taken
C3_Witness ==
    /\ op = "safe_take" /\ Returned(out)
    /\ args.n = PyInt(1)
    /\ args.vec_val = <<0, 1>>
    /\ ResultList = <<0>>

\* C4: safe_index(i, v) returns v[i] for 0 <= i < len(v); for every other
\* integer i (negative ones and i = len(v) included) it raises a
\* BoundsViolation and returns nothing.
C4_IndexInBoundsOrViolation ==
    (op = "safe_index" /\ isinstance_int(args.index))
    => IF 0 <= args.index.v /\ args.index.v < Len(args.vec_val)
       THEN Returned(out) /\ out.val = args.vec_val[args.index.v + 1]
       ELSE BoundsViolation(out)

\* index -1 on a non-empty list was rejected
C4_Witness ==
    /\ op = "safe_index"
    /\ args.index = PyInt(-1)
    /\ Len(args.vec_val) >= 1
    /\ BoundsViolation(out)

\* C5: safe_take and safe_drop return exactly when 0 <= n <= len(v): n = 0
\* and n = len(v) are accepted with the stated results, every other integer
\* n raises a ContractViolation.
C5_TakeDropRange ==
    (op \in {"safe_take", "safe_drop"} /\ isinstance_int(args.n))
    => /\ Returned(out) <=> (0 <= args.n.v /\ args.n.v <= Len(args.vec_val))
       /\ ~Returned(out) => ContractViolation(out)
       /\ (Returned(out) /\ args.n.v = 0)
          => ResultList = IF op = "safe_take" THEN <<>> ELSE args.vec_val
       /\ (Returned(out) /\ args.n.v = Len(args.vec_val))
          => ResultList = IF op = "safe_take" THEN args.vec_val ELSE <<>>

\* dropping a whole non-empty list returned the empty list
C5_Witness ==
    /\ op = "safe_drop" /\ Returned(out)
    /\ Len(args.vec_val) >= 1
    /\ args.n.v = Len(args.vec_val)
    /\ ResultList = <<>>

\* C6: for lists of equal length zip_vect returns the list of pairs
\* (v1[k], v2[k]) of that length; for unequal lengths it raises a
\* ContractViolation.
C6_ZipPairs ==
    op = "zip_vect"
    => IF Len(args.vec1_val) = Len(args.vec2_val)
       THEN /\ Returned(out)
            /\ Len(ResultList) = Len(args.vec1_val)
            /\ \A k \in 1..Len(args.vec1_val) :
                  ResultList[k] = <<args.vec1_val[k], args.vec2_val[k]>>
       ELSE ContractViolation(out)

\* a shorter first list was zipped with a longer second one and rejected
C6_Witness ==
    /\ op = "zip_vect"
    /\ Len(args.vec1_val) < Len(args.vec2_val)
    /\ ContractViolation(out)

(***************************************************************************)
(* Properties of the matrix operations (checked under Spec).               *)
(***************************************************************************)
\* the shape invariant of a Matrix value
ShapeOK(m) ==
    /\ PyLe(PyInt(0), m.rows)
    /\ PyLe(PyInt(0), m.cols)
    /\ PyEq(PyInt(Len(m.data)), m.rows)
    /\ \A i \in 1..Len(m.data) : PyEq(PyInt(Len(m.data[i])), m.cols)

\* C1: after any sequence of Matrix(...), zero_matrix, mat_add and mat_index
\* every Matrix that exists has len(data) = rows >= 0 and every row of length
\* cols >= 0; a construction with rows < 0, cols < 0, len(data) # rows or a
\* row of another length raises a ShapeViolation and yields no Matrix.
C1_ShapeInvariant ==
    /\ \A m \in MatIds : ShapeOK(MatVal(heap, mats[m]))
    /\ (op \in {"Matrix", "zero_matrix", "mat_add"} /\ Returned(out))
       => ShapeOK(out.val)
    /\ (op = "Matrix"
          /\ ~ShapeOK([rows |-> args.rows, cols |-> args.cols, data |-> args.data_val]))
       => ShapeViolation(out)

\* a construction whose data has the declared number of rows but a row of
\* the wrong length was rejected
C1_Witness ==
    /\ op = "Matrix"
    /\ PyEq(PyInt(Len(args.data_val)), args.rows)
    /\ PyLe(PyInt(0), args.cols)
    /\ \E i \in 1..Len(args.data_val) : ~PyEq(PyInt(Len(args.data_val[i])), args.cols)
    /\ ShapeViolation(out)

\* C7: for matrices of equal shape r x c (r = 0 or c = 0 included) mat_add
\* returns a matrix with rows = r, cols = c and entries
\* m1.data[i][j] + m2.data[i][j].
C7_MatAddEntrywise ==
    (op = "mat_add"
       /\ isinstance_int(args.mat1_val.rows) /\ isinstance_int(args.mat1_val.cols)
       /\ args.mat1_val.rows = args.mat2_val.rows
       /\ args.mat1_val.cols = args.mat2_val.cols)
    => /\ Returned(out)
       /\ out.val.rows = args.mat1_val.rows
       /\ out.val.cols = args.mat1_val.cols
       /\ Len(out.val.data) = args.mat1_val.rows.v
       /\ \A i \in 1..args.mat1_val.rows.v :
             /\ Len(out.val.data[i]) = args.mat1_val.cols.v
             /\ \A j \in 1..args.mat1_val.cols.v :
                   out.val.data[i][j] = args.mat1_val.data[i][j] + args.mat2_val.data[i][j]

\* two different 1 x 2 matrices were added
C7_Witness ==
    /\ op = "mat_add" /\ Returned(out)
    /\ args.mat1_val.data = <<<<11, 12>>>>
    /\ args.mat2_val.data = <<<<0, 0>>>>
    /\ out.val.data = <<<<11, 12>>>>

\* C8 as stated: when the shapes differ mat_add raises a ShapeViolation; a
\* row mismatch is reported whenever the row counts differ and a column
\* mismatch is reported whenever the column counts differ, each with both
\* sizes.
C8_Original ==
    (op = "mat_add"
       /\ (~PyEq(args.mat1_val.rows, args.mat2_val.rows)
           \/ ~PyEq(args.mat1_val.cols, args.mat2_val.cols)))
    => /\ ShapeViolation(out)
       /\ ~PyEq(args.mat1_val.rows, args.mat2_val.rows)
          => /\ out.msg = "Row mismatch: {} != {}"
             /\ out.info = <<args.mat1_val.rows, args.mat2_val.rows>>
       /\ ~PyEq(args.mat1_val.cols, args.mat2_val.cols)
          => /\ out.msg = "Column mismatch: {} != {}"
             /\ out.info = <<args.mat1_val.cols, args.mat2_val.cols>>

\* C8 amended: when the shapes differ mat_add raises a ShapeViolation; a row
\* mismatch is reported whenever the row counts differ, a column mismatch
\* whenever the row counts are equal and the column counts differ, each with
\* both sizes.
C8_MismatchReported ==
    (op = "mat_add"
       /\ (~PyEq(args.mat1_val.rows, args.mat2_val.rows)
           \/ ~PyEq(args.mat1_val.cols, args.mat2_val.cols)))
    => /\ ShapeViolation(out)
       /\ ~PyEq(args.mat1_val.rows, args.mat2_val.rows)
          => /\ out.msg = "Row mismatch: {} != {}"
             /\ out.info = <<args.mat1_val.rows, args.mat2_val.rows>>
       /\ (PyEq(args.mat1_val.rows, args.mat2_val.rows)
             /\ ~PyEq(args.mat1_val.cols, args.mat2_val.cols))
          => /\ out.msg = "Column mismatch: {} != {}"
             /\ out.info = <<args.mat1_val.cols, args.mat2_val.cols>>

\* matrices with equal row counts and different column counts were added
C8_Witness ==
    /\ op = "mat_add"
    /\ args.mat1_val.rows = PyInt(1) /\ args.mat2_val.rows = PyInt(1)
    /\ args.mat1_val.cols = PyInt(2) /\ args.mat2_val.cols = PyInt(1)
    /\ out.msg = "Column mismatch: {} != {}"

\* C9: for integers i, j mat_index returns m.data[i][j] when 0 <= i < m.rows
\* and 0 <= j < m.cols; otherwise it raises a BoundsViolation that names the
\* row index only when i is out of range and the column index only when j is.
C9_MatIndexBounds ==
    (op = "mat_index" /\ isinstance_int(args.i) /\ isinstance_int(args.j))
    => LET rowOk == PyLe(PyInt(0), args.i) /\ PyLt(args.i, args.mat_val.rows)
           colOk == PyLe(PyInt(0), args.j) /\ PyLt(args.j, args.mat_val.cols)
       IN  IF rowOk /\ colOk
           THEN /\ Returned(out)
                /\ out.val = args.mat_val.data[args.i.v + 1][args.j.v + 1]
           ELSE /\ BoundsViolation(out)
                /\ \/ /\ out.msg = "Row index {} out of bounds [0, {})"
                      /\ ~rowOk
                      /\ out.info = <<args.i, args.mat_val.rows>>
                   \/ /\ out.msg = "Column index {} out of bounds [0, {})"
                      /\ ~colOk
                      /\ out.info = <<args.j, args.mat_val.cols>>

\* a negative row index into a matrix with rows was rejected as a row failure
C9_Witness ==
    /\ op = "mat_index"
    /\ args.i = PyInt(-1) /\ args.j = PyInt(0)
    /\ args.mat_val.data = <<<<11, 12>>>>
    /\ out.exc = "AssertionError"
    /\ out.msg = "Row index {} out of bounds [0, {})"

\* C10: a call that is passed a fractional value for an integer parameter
\* (the index of safe_index, n of safe_take, safe_drop and safe_replicate,
\* rows and cols of zero_matrix, i and j of mat_index) is rejected: it raises
\* and returns no result computed from the fractional value.
C10_FractionalRejected ==
    /\ (op = "safe_index" /\ ~isinstance_int(args.index)) => ~Returned(out)
    /\ (op \in {"safe_take", "safe_drop", "safe_replicate"} /\ ~isinstance_int(args.n))
       => ~Returned(out)
    /\ (op = "zero_matrix" /\ (~isinstance_int(args.rows) \/ ~isinstance_int(args.cols)))
       => ~Returned(out)
    /\ (op = "mat_index" /\ (~isinstance_int(args.i) \/ ~isinstance_int(args.j)))
       => ~Returned(out)

(***************************************************************************)
(* Properties of Matrix objects in the hands of a caller (SpecMutable).    *)
(***************************************************************************)
\* C2: a Matrix is immutable after construction: whatever the caller does
\* afterwards, each Matrix keeps the rows, cols and entries it has and its
\* shape invariant holds.
C2_MatrixImmutable ==
    [][\A m \in MatIds :
          /\ MatVal(heap', mats'[m]) = MatVal(heap, mats[m])
          /\ ShapeOK(MatVal(heap', mats'[m]))]_vars

(***************************************************************************)
(* Properties of the non-empty wrapper and of safe_minimum and             *)
(* safe_maximum (checked under SpecNonEmpty).                              *)
(***************************************************************************)
\* C11: for a non-empty list v, vect_to_non_empty(v) returns a wrapper w with
\* w.head = v[0] and w.tail = v[1:], w.to_list() = v and
\* len(w) = 1 + len(w.tail) = len(v) >= 1; on the empty list it raises a
\* ContractViolation and returns no wrapper.  to_list and len of a wrapper the
\* caller holds are the head followed by the tail and one more than the
\* length of the tail.
C11_NonEmptyConversion ==
    /\ op = "vect_to_non_empty"
       => IF Len(args.vec_val) >= 1
          THEN /\ Returned(out)
               /\ out.val.head = args.vec_val[1]
               /\ out.val.tail = SubSeq(args.vec_val, 2, Len(args.vec_val))
               /\ NonEmpty_to_list(NonEmpty(out.val.head, out.val.tail))
                     = Ok(args.vec_val)
               /\ NonEmpty_len(NonEmpty(out.val.head, out.val.tail))
                     = Ok(Len(args.vec_val))
               /\ out.val.id # 0
                  => NonEmptyVal(heap, out.val.id)
                        = NonEmpty(out.val.head, out.val.tail)
          ELSE ContractViolation(out)
    /\ (op = "to_list" /\ Returned(out))
       => ResultList = <<args.w_val.head>> \o args.w_val.tail
    /\ op = "len"
       => /\ Returned(out)
          /\ out.val = 1 + Len(args.w_val.tail)
          /\ out.val >= 1

\* a three-element list was converted and the wrapper kept
C11_Witness ==
    /\ op = "vect_to_non_empty"
    /\ args.vec_val = <<1, 0, 1>>
    /\ Returned(out)
    /\ out.val.id # 0
    /\ out.val.head = 1
    /\ out.val.tail = <<0, 1>>

\* C14: for a non-empty list v, safe_minimum(v) and safe_maximum(v) are
\* elements of v with safe_minimum(v) <= x <= safe_maximum(v) for every x in
\* v, hence minimum <= maximum, with equality when v has one element; on the
\* empty list both raise a ContractViolation and return nothing.
C14_MinMax ==
    /\ op = "safe_minimum"
       => IF Len(args.vec_val) >= 1
          THEN /\ Returned(out)
               /\ \E k \in 1..Len(args.vec_val) : args.vec_val[k] = out.val
               /\ \A k \in 1..Len(args.vec_val) : out.val <= args.vec_val[k]
               /\ out.val <= safe_maximum(args.vec_val).val
               /\ Len(args.vec_val) = 1
                  => out.val = safe_maximum(args.vec_val).val
          ELSE ContractViolation(out)
    /\ op = "safe_maximum"
       => IF Len(args.vec_val) >= 1
          THEN /\ Returned(out)
               /\ \E k \in 1..Len(args.vec_val) : args.vec_val[k] = out.val
               /\ \A k \in 1..Len(args.vec_val) : args.vec_val[k] <= out.val
               /\ safe_minimum(args.vec_val).val <= out.val
          ELSE ContractViolation(out)

\* the minimum of a list whose least element is not its first was returned
C14_Witness ==
    /\ op = "safe_minimum"
    /\ args.vec_val = <<1, 0, 1>>
    /\ Returned(out)
    /\ out.val = 0

(***************************************************************************)
(* Further properties of the matrix operations (checked under Spec).       *)
(***************************************************************************)
\* C13: for integers rows >= 0 and cols >= 0 (rows = 0 with cols > 0 and
\* cols = 0 with rows > 0 included) zero_matrix(rows, cols) returns a matrix
\* with these rows and cols, rows-many rows of length cols and every entry 0;
\* for rows < 0 or cols < 0 it raises a violation and returns no matrix.
C13_ZeroMatrix ==
    (op = "zero_matrix" /\ isinstance_int(args.rows) /\ isinstance_int(args.cols))
    => IF args.rows.v >= 0 /\ args.cols.v >= 0
       THEN /\ Returned(out)
            /\ out.val.rows = args.rows
            /\ out.val.cols = args.cols
            /\ Len(out.val.data) = args.rows.v
            /\ \A i \in 1..Len(out.val.data) :
                  /\ Len(out.val.data[i]) = args.cols.v
                  /\ \A j \in 1..Len(out.val.data[i]) : out.val.data[i][j] = 0
            /\ out.val.id # 0 => MatVal(heap, mats[out.val.id]).data = out.val.data
       ELSE ContractViolation(out)

\* a zero matrix with a row of two entries was returned and kept
C13_Witness ==
    /\ op = "zero_matrix"
    /\ args.rows = PyInt(1) /\ args.cols = PyInt(2)
    /\ Returned(out)
    /\ out.val.id # 0
    /\ out.val.data = <<<<0, 0>>>>

\* C15: precondition checks run in a fixed order and only the first failing
\* one is reported: mat_add of matrices that differ in rows and in cols
\* reports the row mismatch, mat_index with i and j both out of range reports
\* the row index, Matrix with negative rows reports the negative rows whatever
\* its data; each such call raises that one violation and returns no result.
C15_FirstFailureReported ==
    /\ (op = "mat_add"
          /\ ~PyEq(args.mat1_val.rows, args.mat2_val.rows)
          /\ ~PyEq(args.mat1_val.cols, args.mat2_val.cols))
       => /\ ~Returned(out)
          /\ ContractViolation(out)
          /\ out.msg = "Row mismatch: {} != {}"
          /\ out.info = <<args.mat1_val.rows, args.mat2_val.rows>>
    /\ (op = "mat_index"
          /\ ~(PyLe(PyInt(0), args.i) /\ PyLt(args.i, args.mat_val.rows))
          /\ ~(PyLe(PyInt(0), args.j) /\ PyLt(args.j, args.mat_val.cols)))
       => /\ ~Returned(out)
          /\ ContractViolation(out)
          /\ out.msg = "Row index {} out of bounds [0, {})"
          /\ out.info = <<args.i, args.mat_val.rows>>
    /\ (op = "Matrix" /\ PyLt(args.rows, PyInt(0)))
       => /\ ~Returned(out)
          /\ ContractViolation(out)
          /\ out.msg = "rows must be non-negative, got {}"
          /\ out.info = <<args.rows>>

\* matrices that differ in rows and in cols were added and the row mismatch
\* was reported
C15_Witness ==
    /\ op = "mat_add"
    /\ ~PyEq(args.mat1_val.rows, args.mat2_val.rows)
    /\ ~PyEq(args.mat1_val.cols, args.mat2_val.cols)
    /\ out.exc = "AssertionError"
    /\ out.msg = "Row mismatch: {} != {}"

(***************************************************************************)
(* Arguments and results of the operations that return new lists, wrappers *)
(* and matrices (checked under SpecFrame).                                 *)
(***************************************************************************)
FrameOps ==
    {"safe_tail", "safe_take", "safe_drop", "zip_vect", "map_vect",
     "vect_to_non_empty", "to_list", "mat_add"}

Range(s) == {s[k] : k \in 1..Len(s)}

\* the list objects that make up the list at address a: the list itself and,
\* when its elements are lists, its elements
ListsOf(a) == {a} \cup (IF heap[a].kind = "data" THEN Range(heap[a].items) ELSE {})

\* the list objects the last call was given
InputLists ==
    CASE op \in {"safe_tail", "safe_take", "safe_drop", "map_vect", "vect_to_non_empty"}
            -> ListsOf(args.vec)
      [] op = "zip_vect" -> ListsOf(args.vec1) \cup ListsOf(args.vec2)
      [] op = "to_list"
            -> ListsOf(heap[args.w].items[2])
               \cup (IF heap[heap[args.w].items[2]].kind = "data"
                     THEN {heap[args.w].items[1]} ELSE {})
      [] op = "mat_add"
            -> ListsOf(mats[args.mat1].data) \cup ListsOf(mats[args.mat2].data)

\* whether the elements of the last call's result are list objects
ResultNested ==
    CASE op \in {"safe_tail", "safe_take", "safe_drop", "vect_to_non_empty"}
            -> heap[args.vec].kind = "data"
      [] op = "to_list" -> heap[heap[args.w].items[2]].kind = "data"
      [] OTHER -> FALSE

\* the list objects that make up what the last call returned
ResultLists ==
    CASE op = "mat_add"
            -> IF out.val.id # 0 THEN ListsOf(mats[out.val.id].data) ELSE {}
      [] op = "vect_to_non_empty"
            -> (IF out.val.id # 0 THEN {heap[out.val.id].items[2]} ELSE {})
               \cup (IF ResultNested THEN {out.val.head} \cup Range(out.val.tail)
                     ELSE {})
      [] OTHER
            -> (IF out.val.id # 0 THEN {out.val.id} ELSE {})
               \cup (IF ResultNested THEN Range(out.val.items) ELSE {})

\* C12: no operation changes its arguments and every result is a fresh
\* value: when safe_tail, safe_take, safe_drop, zip_vect, map_vect,
\* vect_to_non_empty, to_list or mat_add returns or fails, every list and
\* every matrix is what it was before the call, and the returned list,
\* wrapper or matrix shares no list object with the inputs of the call.
C12_ArgumentsKeptResultFresh ==
    [][op' \in FrameOps
       => /\ \A a \in Addrs : heap'[a] = heap[a]
          /\ \A m \in MatIds : mats'[m] = mats[m]
          /\ (Returned(out) => InputLists \cap ResultLists = {})']_vars

====
